---- MODULE Spec2Model ----
(***************************************************************************)
(* Model of opaf/fetch.py: the artifact locator, the repository fetcher,   *)
(* the fallback resolver, the installer, the batch driver, the uninstaller *)
(* and the command line entry point.                                       *)
(*                                                                         *)
(* Python strings are sequences of one-character strings, so that len(),   *)
(* indexing and concatenation behave as they do in Python.  A Python value *)
(* is a record [t, v]: t is "str", "list" or "none".                       *)
(***************************************************************************)
EXTENDS Integers, Sequences, FiniteSets, TLC

VARIABLES
    pc,                   \* where the process stands: "start", "batch", "download", "loop", "post", "done"
    call,                 \* the last call made from outside: [fn, arg]
    outcome,              \* how it ended: "none" (not yet), "returned", "raised", "exit"
    exception,            \* the exception that left it, or "none"
    retval,               \* what check_if_resource_piped_to_path returned: "True", "False", "none"
    batch,                \* install_artifacts_from_requirements_file: repos, requirements, req_index
    inst,                 \* install_artifact's arguments: artifact, site_package_path, repos
    frame,                \* the callee download() chose, with the arguments as the callee receives them
    artifact_downloaded,  \* what download() returned to install_artifact
    installs,             \* the calls of install_artifact made by the running call
    attempts,             \* the calls of try_downloading_from_this_repo made for the current artifact
    fetches,              \* the calls of download_to_path made for the current artifact
    extracted,            \* the calls of extract_artifact made by the running call
    warnings,             \* the artifact paths logger.warning reported
    errors,               \* the exceptions logger.error reported for the current artifact
    remote,               \* what each repository does with a request
    fs                    \* the paths that exist under the install root

vars == <<pc, call, outcome, exception, retval, batch, inst, frame, artifact_downloaded,
          installs, attempts, fetches, extracted, warnings, errors, remote, fs>>

---------------------------------------------------------------------------
(* Python values *)

NoneV == [t |-> "none", v |-> <<>>]

Str(s) == [t |-> "str", v |-> s]

List(l) == [t |-> "list", v |-> l]

IsStr(x) == x.t = "str"

IsNone(x) == x.t = "none"

(* Python truthiness: None, "" and [] are false *)
Truthy(x) == x.t # "none" /\ Len(x.v) > 0

(* len(x): defined for str and list *)
PyLen(x) == Len(x.v)

(* x[i] with a 0-based index: a one-character str of a str, an element of a list *)
PyIndex(x, i) == IF x.t = "str" THEN Str(<<x.v[i + 1]>>) ELSE x.v[i + 1]

(* "%s" % x for the values that reach a format: str(None) is "None" *)
PyFormat(x) ==
    CASE x.t = "str" -> x.v
      [] x.t = "none" -> <<"N", "o", "n", "e">>

Ok(val) == [ok |-> TRUE, val |-> val, exc |-> "none"]

Raise(name) == [ok |-> FALSE, val |-> NoneV, exc |-> name]

---------------------------------------------------------------------------
(* Module constants *)

OPA_SITE_PACKAGES ==
    <<"/", "u", "s", "r", "/", "l", "o", "c", "a", "l", "/", "l", "i", "b",
      "/", "o", "p", "a", "/", "s", "i", "t", "e", "-", "p", "a", "c", "k",
      "a", "g", "e", "s">>

DEFAULT_REPO == <<"g", "e", "n", "e", "r", "i", "c", "-", "l", "o", "c", "a", "l">>

Slash == <<"/">>

---------------------------------------------------------------------------
(* Artifact locator *)

(* Artifact.__init__: "%s/%s/%s-%s.tar.gz" % (name, version, name, version) *)
Artifact(artifact_name, version) ==
    [artifact_path |->
        PyFormat(artifact_name) \o Slash \o PyFormat(version) \o Slash
        \o PyFormat(artifact_name) \o <<"-">> \o PyFormat(version)
        \o <<".", "t", "a", "r", ".", "g", "z">>]

(* Artifact.with_repo: "artifactory/" + repo raises TypeError unless repo is a str *)
with_repo(artifact, repo) ==
    IF IsStr(repo)
    THEN Ok(Str(<<"h", "t", "t", "p", "s", ":", "/", "/", "$", "{", "A", "R", "T",
                  "I", "F", "A", "C", "T", "O", "R", "Y", "_", "H", "O", "S", "T",
                  "}", "/">>
                \o <<"a", "r", "t", "i", "f", "a", "c", "t", "o", "r", "y", "/">>
                \o repo.v \o Slash \o artifact.artifact_path))
    ELSE Raise("TypeError")

(* get_opa_package_path: OPA_SITE_PACKAGES + "/%s/%s" % (name, version) *)
get_opa_package_path(artifact_name, version) ==
    Str(OPA_SITE_PACKAGES \o Slash \o PyFormat(artifact_name) \o Slash \o PyFormat(version))

---------------------------------------------------------------------------
(* Bounds and input sets *)

MaxRepos == 2

MaxReqs == 2

RepoNames == {<<"A">>, <<"B">>}

Names == {<<"a">>, <<"b">>}

Versions == {<<"1">>, <<"2">>}

(* what a repository does with a request for an artifact: serve the archive,
   answer with an error document, or break the transfer *)
Dispositions == {"archive", "error_doc", "transport"}

SeqsUpTo(S, n) == UNION {[1..k -> S] : k \in 0..n}

---------------------------------------------------------------------------
(* The remote repositories and the shell *)

(* the URLs of the repository protocol: one per (repository, name, version) *)
RepoOfUrl(url) ==
    {r \in RepoNames : \E n \in Names, v \in Versions :
        with_repo(Artifact(Str(n), Str(v)), Str(r)).val.v = url.v}

(* the dispositions the remote side can show for a URL: a repository's own for
   one of its URLs, any for a URL that names no repository *)
CurlDispositions(url) ==
    IF RepoOfUrl(url) # {}
    THEN {remote[r] : r \in RepoOfUrl(url)}
    ELSE Dispositions

(* the response body of a disposition: the raw archive bytes or a JSON error
   document whose errors array is not empty *)
Body(d) ==
    CASE d = "archive" -> [utf8 |-> FALSE, json |-> FALSE, has_errors |-> FALSE, errors |-> <<>>]
      [] d = "error_doc" -> [utf8 |-> TRUE, json |-> TRUE, has_errors |-> TRUE, errors |-> <<"404">>]
      [] d = "transport" -> [utf8 |-> TRUE, json |-> FALSE, has_errors |-> FALSE, errors |-> <<>>]

EmptyOutput == [utf8 |-> TRUE, json |-> FALSE, has_errors |-> FALSE, errors |-> <<>>]

(* "curl %s >> %s" run by the shell: the body is appended to the file, nothing
   reaches the process's stdout; curl exits 0 unless the transfer broke *)
CurlProcess(resource_url, path, d) ==
    [returncode |-> IF d = "transport" THEN 1 ELSE 0,
     stdout |-> EmptyOutput,
     appended |-> IF d = "transport" THEN <<>> ELSE <<[path |-> PyFormat(path), body |-> Body(d)]>>]

(* raise_exception_if_process_exited_abnormally *)
raise_exception_if_process_exited_abnormally(err, process) ==
    IF Truthy(err) THEN Raise("Exception")
    ELSE IF process.returncode # 0 THEN Raise("Exception")
    ELSE Ok(NoneV)

(* execute_command: Popen(stdout=PIPE) leaves stderr unpiped, so communicate()
   returns err = None; the data is what reached stdout *)
execute_command(process) ==
    LET err == NoneV
        r == raise_exception_if_process_exited_abnormally(err, process)
    IN  IF r.ok THEN [ok |-> TRUE, data |-> process.stdout, exc |-> "none"]
        ELSE [ok |-> FALSE, data |-> EmptyOutput, exc |-> r.exc]

(* check_if_resource_piped_to_path: decode, json.loads(...)['errors'], len > 0 *)
check_if_resource_piped_to_path(curl_output) ==
    IF ~curl_output.utf8 THEN [ok |-> FALSE, val |-> FALSE, exc |-> "UnicodeDecodeError"]
    ELSE IF ~curl_output.json THEN [ok |-> FALSE, val |-> FALSE, exc |-> "JSONDecodeError"]
    ELSE IF ~curl_output.has_errors THEN [ok |-> FALSE, val |-> FALSE, exc |-> "KeyError"]
    ELSE IF Len(curl_output.errors) > 0 THEN [ok |-> TRUE, val |-> FALSE, exc |-> "none"]
    ELSE [ok |-> TRUE, val |-> TRUE, exc |-> "none"]

(* download_to_path: run curl, classify what it printed *)
download_to_path(resource_url, path, d) ==
    LET x == execute_command(CurlProcess(resource_url, path, d))
    IN  IF x.ok THEN check_if_resource_piped_to_path(x.data)
        ELSE [ok |-> FALSE, val |-> FALSE, exc |-> x.exc]

(* try_downloading_from_this_repo(artifact, repo, site_package_tar_dump_path):
   any exception is logged and turned into False.  d is the remote side's
   disposition for the request, used only when a request is made. *)
try_downloading_from_this_repo(artifact, repo, site_package_tar_dump_path, d) ==
    LET u == with_repo(artifact, repo)
        r == download_to_path(u.val, site_package_tar_dump_path, d)
    IN  IF ~u.ok
        THEN [result |-> FALSE, error |-> u.exc, fetch |-> <<>>]
        ELSE [result |-> IF r.ok THEN r.val ELSE FALSE,
              error |-> r.exc,
              fetch |-> <<[resource_url |-> u.val,
                           path |-> site_package_tar_dump_path,
                           disposition |-> d,
                           appended |-> CurlProcess(u.val, site_package_tar_dump_path, d).appended,
                           result |-> IF r.ok THEN r.val ELSE FALSE]>>]

(* the dispositions to consider for a call of try_downloading_from_this_repo *)
AttemptDispositions(artifact, repo) ==
    IF with_repo(artifact, repo).ok
    THEN CurlDispositions(with_repo(artifact, repo).val)
    ELSE {"transport"}


---------------------------------------------------------------------------
(* Installer *)

(* download(artifact, repos, site_package_path): the callee and the arguments in
   the positions the call passes them, bound to the parameters of
   try_downloading_from_this_repo(artifact, repo, site_package_tar_dump_path) and
   try_downloading_from_all_repos(artifact, repos, site_package_path) *)
download(artifact, repos, site_package_path) ==
    IF IsNone(repos)
    THEN [fn |-> "try_downloading_from_this_repo",
          repo |-> site_package_path,
          site_package_tar_dump_path |-> Str(DEFAULT_REPO)]
    ELSE [fn |-> "try_downloading_from_all_repos",
          repos |-> site_package_path,
          site_package_path |-> repos,
          repo_index |-> 0,
          artifact_piped_to_site_package |-> FALSE]

(* the while condition of try_downloading_from_all_repos *)
LoopContinues(f) ==
    ~f.artifact_piped_to_site_package /\ f.repo_index < PyLen(f.repos)

(* the call in the loop body, try_downloading_from_this_repo(artifact,
   site_package_path, repo), bound to (artifact, repo, site_package_tar_dump_path) *)
LoopCall(f) ==
    [repo |-> f.site_package_path,
     site_package_tar_dump_path |-> PyIndex(f.repos, f.repo_index)]

(* extract_artifact: tar on the path, then rm on the literal word
   site_package_path; either command raises when it exits non-zero *)
extract_artifact(site_package_path, tar_rc, rm_rc) ==
    LET tar == execute_command([returncode |-> tar_rc, stdout |-> EmptyOutput, appended |-> <<>>])
        rm == execute_command([returncode |-> rm_rc, stdout |-> EmptyOutput, appended |-> <<>>])
    IN  [untarred |-> site_package_path,
         removed |-> IF tar.ok
                     THEN <<"s", "i", "t", "e", "_", "p", "a", "c", "k", "a", "g", "e",
                            "_", "p", "a", "t", "h">>
                     ELSE <<>>,
         exc |-> IF ~tar.ok THEN tar.exc ELSE rm.exc]

(* the branch of install_artifact, taken the other way round *)
ExtractsWhenNotDownloaded(downloaded) == ~downloaded

(* the branch of install_artifact *)
ExtractsAfter(downloaded) == downloaded

(* the exit statuses tar and rm can show *)
ExitStatuses == {0, 1}

(* a call of install_artifact(artifact, site_package_path, repos) begins; made
   is the list of the calls this run has made before *)
InstallArtifactBegin(made, artifact, site_package_path, repos) ==
    /\ inst' = [artifact |-> artifact, site_package_path |-> site_package_path, repos |-> repos]
    /\ installs' = Append(made, inst')
    /\ frame' = download(artifact, repos, site_package_path)
    /\ pc' = IF frame'.fn = "try_downloading_from_this_repo" THEN "download" ELSE "loop"
    /\ attempts' = <<>>
    /\ fetches' = <<>>
    /\ errors' = <<>>
    /\ artifact_downloaded' = FALSE

(* one call of try_downloading_from_this_repo with the arguments c, and its logs *)
Attempt(c, d) ==
    LET r == try_downloading_from_this_repo(inst.artifact, c.repo, c.site_package_tar_dump_path, d)
    IN  /\ attempts' = Append(attempts, [repo |-> c.repo,
                                         site_package_tar_dump_path |-> c.site_package_tar_dump_path,
                                         result |-> r.result])
        /\ fetches' = fetches \o r.fetch
        /\ errors' = IF r.error # "none" THEN Append(errors, r.error) ELSE errors

(* download() with repos None: the one call of try_downloading_from_this_repo *)
DownloadDefault ==
    /\ pc = "download"
    /\ \E d \in AttemptDispositions(inst.artifact, frame.repo) :
          /\ Attempt(frame, d)
          /\ artifact_downloaded' =
                try_downloading_from_this_repo(inst.artifact, frame.repo,
                                               frame.site_package_tar_dump_path, d).result
    /\ pc' = "post"
    /\ UNCHANGED <<call, outcome, exception, retval, batch, inst, frame, installs,
                   extracted, warnings, remote, fs>>

(* one iteration of the while loop of try_downloading_from_all_repos *)
LoopStep ==
    /\ pc = "loop"
    /\ LoopContinues(frame)
    /\ \E d \in AttemptDispositions(inst.artifact, LoopCall(frame).repo) :
          /\ Attempt(LoopCall(frame), d)
          /\ frame' = [frame EXCEPT
                !.artifact_piped_to_site_package =
                    try_downloading_from_this_repo(inst.artifact, LoopCall(frame).repo,
                        LoopCall(frame).site_package_tar_dump_path, d).result,
                !.repo_index = @ + 1]
    /\ UNCHANGED <<pc, call, outcome, exception, retval, batch, inst, artifact_downloaded,
                   installs, extracted, warnings, remote, fs>>

(* the loop ends and download() returns its flag *)
LoopExit ==
    /\ pc = "loop"
    /\ ~LoopContinues(frame)
    /\ artifact_downloaded' = frame.artifact_piped_to_site_package
    /\ pc' = "post"
    /\ UNCHANGED <<call, outcome, exception, retval, batch, inst, frame, installs, attempts,
                   fetches, extracted, warnings, errors, remote, fs>>

(* install_artifact after download(): extract or warn, then return to the
   caller, which is the batch loop or the call from outside *)
InstallArtifactFinish ==
    /\ pc = "post"
    /\ \E tar_rc \in ExitStatuses, rm_rc \in ExitStatuses :
          LET x == extract_artifact(inst.site_package_path, tar_rc, rm_rc)
              raised == ExtractsAfter(artifact_downloaded) /\ x.exc # "none"
          IN  /\ ~ExtractsAfter(artifact_downloaded) => tar_rc = 0 /\ rm_rc = 0
              /\ extracted' = IF ExtractsAfter(artifact_downloaded)
                              THEN Append(extracted, x) ELSE extracted
              /\ warnings' = IF ExtractsAfter(artifact_downloaded)
                             THEN warnings ELSE Append(warnings, inst.artifact.artifact_path)
              /\ exception' = IF raised THEN x.exc ELSE "none"
              /\ outcome' = IF raised THEN "raised"
                            ELSE IF batch.active THEN "none" ELSE "returned"
              /\ pc' = IF ~raised /\ batch.active THEN "batch" ELSE "done"
              /\ batch' = IF ~raised /\ batch.active
                          THEN [batch EXCEPT !.req_index = @ + 1] ELSE batch
    /\ UNCHANGED <<call, retval, inst, frame, artifact_downloaded, installs, attempts,
                   fetches, errors, remote, fs>>


---------------------------------------------------------------------------
(* Batch driver *)

NoBatch == [active |-> FALSE, repos |-> NoneV, requirements |-> <<>>, req_index |-> 0]

(* a stream whose YAML document is the mapping doc *)
Stream(doc) == [t |-> "stream", v |-> <<>>, doc |-> doc]

(* yaml2Dict.load: the mapping of a stream that holds one; a str is read as YAML
   text and a bare word such as a file name loads as that scalar; None gives None *)
yaml_load(path_to_dependencies) ==
    IF path_to_dependencies.t = "stream" THEN [map |-> TRUE, doc |-> path_to_dependencies.doc]
    ELSE [map |-> FALSE, doc |-> <<>>]

(* parse_requirements_file: .get('repositories') may be None, ['requirements']
   must be present *)
parse_requirements_file(path_to_dependencies) ==
    LET requirements_file_map == yaml_load(path_to_dependencies)
    IN  IF ~requirements_file_map.map THEN Raise("AttributeError")
        ELSE IF "requirements" \notin DOMAIN requirements_file_map.doc THEN Raise("KeyError")
        ELSE Ok([repos |-> IF "repositories" \in DOMAIN requirements_file_map.doc
                           THEN requirements_file_map.doc.repositories ELSE NoneV,
                 requirements |-> requirements_file_map.doc.requirements])

(* the requirement the for loop of install_artifacts_from_requirements_file takes next *)
NextRequirement(b) == b.requirements[b.req_index + 1]

(* a for loop that an installation's warning ends *)
HasNextUnlessWarned(b) == b.req_index < Len(b.requirements) /\ warnings = <<>>

(* whether the for loop has a requirement left *)
HasNextRequirement(b) == b.req_index < Len(b.requirements)

NoInst == [artifact |-> [artifact_path |-> <<>>], site_package_path |-> NoneV, repos |-> NoneV]

NoFrame == [fn |-> "none"]

(* the state as a call from outside finds it: the logs of the call before are cleared *)
Cleared ==
    /\ inst' = NoInst
    /\ frame' = NoFrame
    /\ artifact_downloaded' = FALSE
    /\ installs' = <<>>
    /\ attempts' = <<>>
    /\ fetches' = <<>>
    /\ errors' = <<>>

(* install_artifacts_from_requirements_file(path_to_dependencies) begins *)
InstallFromRequirementsBegin(path_to_dependencies) ==
    LET p == parse_requirements_file(path_to_dependencies)
    IN  /\ extracted' = <<>>
        /\ warnings' = <<>>
        /\ retval' = "none"
        /\ Cleared
        /\ IF p.ok
           THEN /\ batch' = [active |-> TRUE, repos |-> p.val.repos,
                             requirements |-> p.val.requirements, req_index |-> 0]
                /\ pc' = "batch"
                /\ outcome' = "none"
                /\ exception' = "none"
           ELSE /\ batch' = NoBatch
                /\ pc' = "done"
                /\ outcome' = "raised"
                /\ exception' = p.exc

(* the for loop of install_artifacts_from_requirements_file: the next
   requirement's install_artifact, or the return *)
BatchStep ==
    /\ pc = "batch"
    /\ IF HasNextRequirement(batch)
       THEN LET name == NextRequirement(batch)[1]
                version == NextRequirement(batch)[2]
            IN  /\ InstallArtifactBegin(installs, Artifact(name, version),
                                        get_opa_package_path(name, version), batch.repos)
                /\ UNCHANGED <<outcome, batch>>
       ELSE /\ pc' = "done"
            /\ outcome' = "returned"
            /\ batch' = [batch EXCEPT !.active = FALSE]
            /\ UNCHANGED <<inst, frame, artifact_downloaded, installs, attempts, fetches, errors>>
    /\ UNCHANGED <<call, exception, retval, extracted, warnings, remote, fs>>


---------------------------------------------------------------------------
(* Command line *)

Word(s) == [opt |-> FALSE, s |-> s]

Option(s) == [opt |-> TRUE, s |-> s]

INSTALL == <<"i", "n", "s", "t", "a", "l", "l">>

UNINSTALL == <<"u", "n", "i", "n", "s", "t", "a", "l", "l">>

READ == <<"r", "e", "a", "d">>

ID == <<"i", "d">>

VERSION == <<"v", "e", "r", "s", "i", "o", "n">>

REPO == <<"r", "e", "p", "o">>

(* the attribute argparse stores an option under: --read is read *)
Dest(s) ==
    CASE s = READ -> "read"
      [] s = ID -> "id"
      [] s = VERSION -> "version"
      [] s = REPO -> "repo"
      [] OTHER -> "unknown"

(* build_arg_parser: the options added, by args[0] and args[1]; args[0] and
   args[1] raise IndexError when args is that short *)
build_arg_parser(args) ==
    IF Len(args) < 1 THEN Raise("IndexError")
    ELSE IF args[1] = Word(INSTALL)
    THEN IF Len(args) < 2 THEN Raise("IndexError")
         ELSE IF args[2] = Option(READ)
         THEN Ok({[name |-> READ, required |-> TRUE]})
         ELSE Ok({[name |-> ID, required |-> TRUE], [name |-> VERSION, required |-> TRUE],
                  [name |-> REPO, required |-> FALSE]})
    ELSE IF args[1] = Word(UNINSTALL)
    THEN Ok({[name |-> ID, required |-> TRUE], [name |-> VERSION, required |-> FALSE]})
    ELSE Ok({})

RECURSIVE parse_known(_, _, _, _)
(* ArgumentParser.parse_args from token i on: an added option takes the next
   word as its value; any other token is an unrecognized argument; a required
   option left unset is an error.  An error is SystemExit(2). *)
parse_known(parser, args, i, namespace) ==
    IF i > Len(args)
    THEN IF \E o \in parser : o.required /\ IsNone(namespace[Dest(o.name)])
         THEN Raise("SystemExit")
         ELSE [ok |-> TRUE, val |-> namespace, exc |-> "none"]
    ELSE IF args[i].opt /\ (\E o \in parser : o.name = args[i].s)
    THEN IF i + 1 <= Len(args) /\ ~args[i + 1].opt
         THEN parse_known(parser, args, i + 2,
                          [namespace EXCEPT ![Dest(args[i].s)] = Str(args[i + 1].s)])
         ELSE Raise("SystemExit")
    ELSE Raise("SystemExit")

parse_args(parser, args) ==
    parse_known(parser, args, 1, [d \in {Dest(o.name) : o \in parser} |-> NoneV])

(* install_package: the branch taken and the arguments it reads; an attribute
   the namespace lacks raises AttributeError *)
install_package(parsed_args) ==
    IF "read" \notin DOMAIN parsed_args THEN [mode |-> "raise", exc |-> "AttributeError"]
    ELSE IF ~Truthy(parsed_args.read)
    THEN [mode |-> "batch", path_to_dependencies |-> parsed_args.read]
    ELSE IF {"id", "version", "repo"} \subseteq DOMAIN parsed_args
    THEN [mode |-> "single", name |-> parsed_args.id, version |-> parsed_args.version,
          repos |-> List(<<parsed_args.repo>>)]
    ELSE [mode |-> "raise", exc |-> "AttributeError"]

(* install_package(parsed_args) begins *)
InstallPackageBegin(parsed_args) ==
    LET m == install_package(parsed_args)
    IN  CASE m.mode = "batch" -> InstallFromRequirementsBegin(m.path_to_dependencies)
          [] m.mode = "single" ->
                /\ InstallArtifactBegin(<<>>, Artifact(m.name, m.version),
                                        get_opa_package_path(m.name, m.version), m.repos)
                /\ retval' = "none"
                /\ extracted' = <<>>
                /\ warnings' = <<>>
                /\ batch' = NoBatch
                /\ outcome' = "none"
                /\ exception' = "none"
          [] m.mode = "raise" ->
                /\ Cleared
                /\ retval' = "none"
                /\ extracted' = <<>>
                /\ warnings' = <<>>
                /\ batch' = NoBatch
                /\ pc' = "done"
                /\ outcome' = "raised"
                /\ exception' = m.exc


---------------------------------------------------------------------------
(* Uninstaller *)

(* an uninstall path that is never narrowed to the version *)
uninstall_path_of_name(parsed_args) ==
    IF "id" \notin DOMAIN parsed_args THEN Raise("AttributeError")
    ELSE IF ~IsStr(parsed_args.id) THEN Raise("TypeError")
    ELSE Ok(Str(OPA_SITE_PACKAGES \o Slash \o parsed_args.id.v))

(* uninstall_package: OPA_SITE_PACKAGES + '/' + id, then '/' + version when the
   version is truthy *)
uninstall_path(parsed_args) ==
    IF "id" \notin DOMAIN parsed_args THEN Raise("AttributeError")
    ELSE IF ~IsStr(parsed_args.id) THEN Raise("TypeError")
    ELSE IF "version" \notin DOMAIN parsed_args THEN Raise("AttributeError")
    ELSE IF Truthy(parsed_args.version)
    THEN IF IsStr(parsed_args.version)
         THEN Ok(Str(OPA_SITE_PACKAGES \o Slash \o parsed_args.id.v \o Slash
                     \o parsed_args.version.v))
         ELSE Raise("TypeError")
    ELSE Ok(Str(OPA_SITE_PACKAGES \o Slash \o parsed_args.id.v))

IsPrefix(p, q) == Len(p) <= Len(q) /\ SubSeq(q, 1, Len(p)) = p

(* the paths at or below path *)
Subtree(files, path) == {q \in files : q = path \/ IsPrefix(path \o Slash, q)}

(* what "rm -rf path" leaves of the files *)
rm_rf(files, path) == files \ Subtree(files, path)

(* uninstall_package(parsed_args) as a whole: rm -rf exits 0 when the path is not
   there; when it exits non-zero some of the subtree may be left and
   execute_command raises *)
UninstallPackage(parsed_args) ==
    LET p == uninstall_path(parsed_args)
    IN  /\ Cleared
        /\ retval' = "none"
        /\ extracted' = <<>>
        /\ warnings' = <<>>
        /\ batch' = NoBatch
        /\ pc' = "done"
        /\ IF ~p.ok
           THEN /\ outcome' = "raised"
                /\ exception' = p.exc
                /\ fs' = fs
           ELSE \E rc \in ExitStatuses :
                  LET x == execute_command([returncode |-> rc, stdout |-> EmptyOutput,
                                            appended |-> <<>>])
                  IN  /\ rc # 0 => Subtree(fs, p.val.v) # {}
                      /\ outcome' = IF x.ok THEN "returned" ELSE "raised"
                      /\ exception' = x.exc
                      /\ IF x.ok
                         THEN fs' = rm_rf(fs, p.val.v)
                         ELSE \E kept \in SUBSET Subtree(fs, p.val.v) :
                                /\ kept # {}
                                /\ fs' = rm_rf(fs, p.val.v) \cup kept

---------------------------------------------------------------------------
(* main *)

(* main(args): the exception or exit that ends it before a command runs, or the
   command it runs with the parsed namespace *)
main(args) ==
    LET parser == build_arg_parser(args)
        parsed_args == parse_args(parser.val, args)
    IN  IF ~parser.ok THEN [run |-> "raise", exc |-> parser.exc]
        ELSE IF ~parsed_args.ok THEN [run |-> "exit", exc |-> parsed_args.exc]
        ELSE IF args[1] = Word(INSTALL)
        THEN [run |-> "install_package", parsed_args |-> parsed_args.val]
        ELSE IF args[1] = Word(UNINSTALL)
        THEN [run |-> "uninstall_package", parsed_args |-> parsed_args.val]
        ELSE [run |-> "nothing"]

(* the state after a call that ran no command *)
Ended(how, exc, ret) ==
    /\ Cleared
    /\ retval' = ret
    /\ extracted' = <<>>
    /\ warnings' = <<>>
    /\ batch' = NoBatch
    /\ pc' = "done"
    /\ outcome' = how
    /\ exception' = exc

Main(args) ==
    LET m == main(args)
    IN  CASE m.run = "raise" -> Ended("raised", m.exc, "none") /\ fs' = fs
          [] m.run = "exit" -> Ended("exit", m.exc, "none") /\ fs' = fs
          [] m.run = "install_package" -> InstallPackageBegin(m.parsed_args) /\ fs' = fs
          [] m.run = "uninstall_package" -> UninstallPackage(m.parsed_args)
          [] m.run = "nothing" -> Ended("returned", "none", "none") /\ fs' = fs


---------------------------------------------------------------------------
(* The calls made from outside and the inputs they are given *)

RepoValues == {Str(r) : r \in RepoNames}

(* a repositories list of the requirements file, or None when the key is absent *)
RepoLists == {List(l) : l \in SeqsUpTo(RepoValues, MaxRepos)}

(* the requirements of a requirements file: pairs of name and version, here
   of two artifacts, with repeats *)
RequirementLists ==
    SeqsUpTo({<<Str(<<"a">>), Str(<<"1">>)>>, <<Str(<<"b">>), Str(<<"2">>)>>}, MaxReqs)

(* the outputs check_if_resource_piped_to_path can be handed *)
CurlOutputs ==
    {Body("archive"), Body("error_doc"), EmptyOutput,
     [utf8 |-> TRUE, json |-> TRUE, has_errors |-> TRUE, errors |-> <<>>],
     [utf8 |-> TRUE, json |-> TRUE, has_errors |-> FALSE, errors |-> <<>>]}

(* argument vectors of the command line *)
ArgVectors ==
    {<<>>, <<Word(INSTALL)>>, <<Option(READ), Word(<<"f">>)>>}
    \cup {<<Word(INSTALL), Option(READ), Word(<<"f">>)>>}
    \cup {<<Word(INSTALL), Option(ID), Word(n), Option(VERSION), Word(v)>> :
            n \in Names, v \in Versions}
    \cup {<<Word(INSTALL), Option(ID), Word(n), Option(VERSION), Word(v), Option(REPO), Word(r)>> :
            n \in Names, v \in Versions, r \in RepoNames}
    \cup {<<Word(UNINSTALL), Option(ID), Word(n)>> : n \in Names}
    \cup {<<Word(UNINSTALL), Option(ID), Word(n), Option(VERSION), Word(v)>> :
            n \in Names, v \in Versions}

OptionalStr(S) == {NoneV} \cup {Str(x) : x \in S}

CallMain ==
    /\ pc = "start"
    /\ \E args \in ArgVectors :
          /\ call' = [fn |-> "main", arg |-> args]
          /\ Main(args)
    /\ UNCHANGED remote

(* install_package called with a namespace: one the --read parser builds, one
   the --id parser builds, or one that has every attribute *)
CallInstallPackage ==
    /\ pc = "start"
    /\ \/ \E parsed_args \in {[read |-> Str(<<"f">>)]} :
             /\ call' = [fn |-> "install_package", arg |-> parsed_args]
             /\ InstallPackageBegin(parsed_args)
       \/ \E n \in Names, v \in Versions, r \in OptionalStr(RepoNames) :
             LET parsed_args == [id |-> Str(n), version |-> Str(v), repo |-> r]
             IN  /\ call' = [fn |-> "install_package", arg |-> parsed_args]
                 /\ InstallPackageBegin(parsed_args)
       \/ \E f \in OptionalStr({<<"f">>}), n \in OptionalStr(Names),
             v \in OptionalStr(Versions), r \in OptionalStr(RepoNames) :
             LET parsed_args == [read |-> f, id |-> n, version |-> v, repo |-> r]
             IN  /\ call' = [fn |-> "install_package", arg |-> parsed_args]
                 /\ InstallPackageBegin(parsed_args)
    /\ UNCHANGED <<remote, fs>>

(* install_artifacts_from_requirements_file called with a stream whose document
   has both keys, lacks repositories, or lacks requirements *)
CallInstallFromRequirements ==
    /\ pc = "start"
    /\ \/ \E l \in RepoLists, q \in RequirementLists :
             LET path_to_dependencies == Stream([repositories |-> l, requirements |-> q])
             IN  /\ call' = [fn |-> "install_artifacts_from_requirements_file",
                             arg |-> path_to_dependencies]
                 /\ InstallFromRequirementsBegin(path_to_dependencies)
       \/ \E q \in RequirementLists :
             LET path_to_dependencies == Stream([requirements |-> q])
             IN  /\ call' = [fn |-> "install_artifacts_from_requirements_file",
                             arg |-> path_to_dependencies]
                 /\ InstallFromRequirementsBegin(path_to_dependencies)
       \/ \E l \in RepoLists :
             LET path_to_dependencies == Stream([repositories |-> l])
             IN  /\ call' = [fn |-> "install_artifacts_from_requirements_file",
                             arg |-> path_to_dependencies]
                 /\ InstallFromRequirementsBegin(path_to_dependencies)
    /\ UNCHANGED <<remote, fs>>

(* check_if_resource_piped_to_path called with a curl output *)
CallCheckIfResourcePiped ==
    /\ pc = "start"
    /\ \E curl_output \in CurlOutputs :
          LET r == check_if_resource_piped_to_path(curl_output)
          IN  /\ call' = [fn |-> "check_if_resource_piped_to_path", arg |-> curl_output]
              /\ Ended(IF r.ok THEN "returned" ELSE "raised", r.exc,
                       IF ~r.ok THEN "none" ELSE IF r.val THEN "True" ELSE "False")
    /\ UNCHANGED <<remote, fs>>

(* uninstall_package called with a namespace of the uninstall parser *)
CallUninstallPackage ==
    /\ pc = "start"
    /\ \E n \in Names, v \in OptionalStr(Versions) :
          LET parsed_args == [id |-> Str(n), version |-> v]
          IN  /\ call' = [fn |-> "uninstall_package", arg |-> parsed_args]
              /\ UninstallPackage(parsed_args)
    /\ UNCHANGED remote

---------------------------------------------------------------------------
(* The install root and the specifications *)

(* the paths an install root can hold: a directory per name, one per version in it *)
InstallPaths ==
    {OPA_SITE_PACKAGES \o Slash \o n : n \in Names}
    \cup {OPA_SITE_PACKAGES \o Slash \o n \o Slash \o v : n \in Names, v \in Versions}

(* a version directory exists only in its name directory *)
IsTree(files) ==
    \A n \in Names, v \in Versions :
        (OPA_SITE_PACKAGES \o Slash \o n \o Slash \o v) \in files
            => (OPA_SITE_PACKAGES \o Slash \o n) \in files

Quiet ==
    /\ pc = "start"
    /\ call = [fn |-> "none", arg |-> NoneV]
    /\ outcome = "none"
    /\ exception = "none"
    /\ retval = "none"
    /\ batch = NoBatch
    /\ inst = NoInst
    /\ frame = NoFrame
    /\ artifact_downloaded = FALSE
    /\ installs = <<>>
    /\ attempts = <<>>
    /\ fetches = <<>>
    /\ extracted = <<>>
    /\ warnings = <<>>
    /\ errors = <<>>

(* the process has ended; the next one starts with the remote side and the
   install root as they are *)
Restart ==
    /\ pc = "done"
    /\ pc' = "start"
    /\ call' = [fn |-> "none", arg |-> NoneV]
    /\ outcome' = "none"
    /\ exception' = "none"
    /\ retval' = "none"
    /\ batch' = NoBatch
    /\ Cleared
    /\ extracted' = <<>>
    /\ warnings' = <<>>
    /\ UNCHANGED <<remote, fs>>

Init ==
    /\ Quiet
    /\ remote \in [RepoNames -> Dispositions]
    /\ fs = {}

Next ==
    \/ CallMain
    \/ CallInstallPackage
    \/ CallInstallFromRequirements
    \/ CallCheckIfResourcePiped
    \/ BatchStep
    \/ DownloadDefault
    \/ LoopStep
    \/ LoopExit
    \/ InstallArtifactFinish
    \/ Restart

Spec == Init /\ [][Next]_vars

InitUninstall ==
    /\ Quiet
    /\ remote = [r \in RepoNames |-> "error_doc"]
    /\ fs \in {files \in SUBSET InstallPaths : IsTree(files)}

NextUninstall ==
    \/ CallUninstallPackage
    \/ CallMain
    \/ Restart

SpecUninstall == InitUninstall /\ [][NextUninstall]_vars


---------------------------------------------------------------------------
(* Properties of the fallback resolver *)

(* download() has returned to install_artifact, for a list of repository names *)
ResolvedOverList ==
    /\ pc = "post"
    /\ inst.repos.t = "list"
    /\ \A i \in 1..Len(inst.repos.v) : inst.repos.v[i] \in RepoValues

(* the URL of the current artifact in repository repo *)
UrlIn(repo) == with_repo(inst.artifact, repo).val

(* the place in the list of the first repository that serves the archive, or 0 *)
FirstObtained(repos) ==
    IF \E i \in 1..Len(repos) : remote[repos[i].v] = "archive"
    THEN CHOOSE i \in 1..Len(repos) :
            /\ remote[repos[i].v] = "archive"
            /\ \A j \in 1..(i - 1) : remote[repos[j].v] # "archive"
    ELSE 0

(* the repositories a resolution in declared order visits: up to the first that
   serves the archive, all of them when none does *)
Visited(repos) ==
    IF FirstObtained(repos) = 0 THEN repos ELSE SubSeq(repos, 1, FirstObtained(repos))

(* C1: over a non-empty list the fetches go to repos[0], repos[1], ... in that
   order, none goes to a repository after the first that yields Obtained, and
   the result is true when one yields Obtained *)
C1_OrderedFallbackStopsAtFirstObtained ==
    /\ (pc \in {"loop", "post"} /\ inst.repos.t = "list"
            /\ \A k \in 1..Len(inst.repos.v) : inst.repos.v[k] \in RepoValues) =>
            \A i \in 1..Len(attempts) :
                /\ i <= Len(fetches)
                /\ i <= Len(Visited(inst.repos.v))
                /\ fetches[i].resource_url = UrlIn(Visited(inst.repos.v)[i])
    /\ (ResolvedOverList /\ Len(inst.repos.v) > 0) =>
            /\ Len(fetches) = Len(Visited(inst.repos.v))
            /\ artifact_downloaded = (FirstObtained(inst.repos.v) > 0)

(* C2: with a repository whose transfer breaks listed before the first one that
   serves the archive, that one is still fetched from and the result is true *)
C2_TransportErrorDoesNotHaltFallback ==
    (/\ ResolvedOverList
     /\ FirstObtained(inst.repos.v) > 0
     /\ \E i \in 1..(FirstObtained(inst.repos.v) - 1) : remote[inst.repos.v[i].v] = "transport")
    => /\ \E k \in 1..Len(fetches) :
              fetches[k].resource_url = UrlIn(inst.repos.v[FirstObtained(inst.repos.v)])
       /\ artifact_downloaded

(* C3: when every listed repository answers NotFound the result is false, nothing
   is raised, and each listed repository has been fetched from exactly once *)
C3_AllNotFoundReturnsFalse ==
    (/\ ResolvedOverList
     /\ \A i \in 1..Len(inst.repos.v) : remote[inst.repos.v[i].v] = "error_doc")
    => /\ artifact_downloaded = FALSE
       /\ outcome # "raised"
       /\ Len(fetches) = Len(inst.repos.v)
       /\ \A i \in 1..Len(fetches) : fetches[i].resource_url = UrlIn(inst.repos.v[i])

(* C5: with repos None there is exactly one fetch, from the URL of the artifact
   in "generic-local", written to the install destination, and download()
   returns its outcome *)
C5_DefaultRepositoryWhenNone ==
    (pc = "post" /\ IsNone(inst.repos)) =>
        /\ Len(attempts) = 1
        /\ Len(fetches) = 1
        /\ fetches[1].resource_url = UrlIn(Str(DEFAULT_REPO))
        /\ fetches[1].path = inst.site_package_path
        /\ artifact_downloaded = fetches[1].result

(* the repositories an installation is to try: the listed ones, or the default *)
Candidates ==
    IF IsNone(inst.repos) THEN {Str(DEFAULT_REPO)}
    ELSE {inst.repos.v[i] : i \in 1..Len(inst.repos.v)}

(* C10: every call down the chain passes the repository being tried as the
   repository and the install path as the destination: each fetch is from the
   artifact's URL in a candidate repository and writes to the install path *)
C10_RepositoryAndDestinationNotInterchanged ==
    /\ \A i \in 1..Len(attempts) :
          /\ attempts[i].site_package_tar_dump_path = inst.site_package_path
          /\ attempts[i].repo \in Candidates
    /\ \A i \in 1..Len(fetches) :
          /\ fetches[i].path = inst.site_package_path
          /\ \E r \in Candidates : IsStr(r) /\ fetches[i].resource_url = UrlIn(r)


---------------------------------------------------------------------------
(* Properties of the installer and the batch driver *)

(* C4: extract_artifact runs only from install_artifact after download()
   returned true on a fetch attempt that returned true, and then on the install
   path; when download() returned false nothing is extracted, one warning names
   the artifact, and install_artifact returns without raising *)
C4_ExtractionOnlyAfterObtained ==
    /\ [][extracted' # extracted =>
            /\ pc = "post"
            /\ artifact_downloaded
            /\ \E i \in 1..Len(attempts) : attempts[i].result
            /\ extracted'[Len(extracted')].untarred = inst.site_package_path]_vars
    /\ [][(pc = "post" /\ ~artifact_downloaded) =>
            /\ extracted' = extracted
            /\ warnings' = Append(warnings, inst.artifact.artifact_path)
            /\ outcome' # "raised"
            /\ pc' \in {"batch", "done"}]_vars

(* an installation ended in a warning after its one fetch was answered NotFound *)
C4_Witness ==
    /\ pc = "done"
    /\ outcome = "returned"
    /\ Len(fetches) = 1
    /\ fetches[1].disposition = "error_doc"
    /\ ~artifact_downloaded
    /\ warnings = <<inst.artifact.artifact_path>>
    /\ extracted = <<>>

(* the batch call on a requirements file that has its requirements *)
IsBatchCall ==
    /\ call.fn = "install_artifacts_from_requirements_file"
    /\ "requirements" \in DOMAIN call.arg.doc

(* the install_artifact call the i-th requirement of the file is due *)
InstallOf(i) ==
    LET q == call.arg.doc.requirements[i]
    IN  [artifact |-> [artifact_path |-> q[1].v \o Slash \o q[2].v \o Slash \o q[1].v
                                         \o <<"-">> \o q[2].v
                                         \o <<".", "t", "a", "r", ".", "g", "z">>],
         site_package_path |-> Str(OPA_SITE_PACKAGES \o Slash \o q[1].v \o Slash \o q[2].v),
         repos |-> IF "repositories" \in DOMAIN call.arg.doc
                   THEN call.arg.doc.repositories ELSE NoneV]

(* C7: the batch calls install_artifact once per requirement, in file order, each
   with the file's repositories (or None); an installation that found nothing or
   hit transport errors is followed by the next, so the batch returns with every
   requirement's installation made *)
C7_BatchInstallsEachRequirementInOrder ==
    IsBatchCall =>
        /\ Len(installs) <= Len(call.arg.doc.requirements)
        /\ \A i \in 1..Len(installs) : installs[i] = InstallOf(i)
        /\ (pc = "batch" /\ batch.req_index > 0) => Len(installs) = batch.req_index
        /\ pc = "done" =>
              \/ outcome = "returned" /\ Len(installs) = Len(call.arg.doc.requirements)
              \/ outcome = "raised" /\ artifact_downloaded /\ extracted # <<>>

(* a batch of two different requirements returned after both installations, the
   first of which had ended in a warning and the second in a broken transfer *)
C7_Witness ==
    /\ IsBatchCall
    /\ pc = "done"
    /\ outcome = "returned"
    /\ Len(installs) = 2
    /\ installs[1].artifact # installs[2].artifact
    /\ Len(warnings) = 2
    /\ Len(fetches) = 1
    /\ fetches[1].disposition = "transport"

---------------------------------------------------------------------------
(* Properties of the fetcher's classification *)

(* C6: a non-empty errors list gives false; an empty or absent errors list, a raw
   archive included, gives true *)
C6_ClassificationByErrorsList ==
    (pc = "done" /\ call.fn = "check_if_resource_piped_to_path") =>
        IF call.arg.utf8 /\ call.arg.json /\ call.arg.has_errors /\ Len(call.arg.errors) > 0
        THEN retval = "False"
        ELSE retval = "True"

---------------------------------------------------------------------------
(* Properties of the command line *)

(* the argument vector is install --read <file> *)
IsReadVector(args) ==
    Len(args) = 3 /\ args[1] = Word(INSTALL) /\ args[2] = Option(READ)

(* the argument vector is install --id <name> --version <version> [--repo <repo>] *)
IsIdVector(args) ==
    Len(args) >= 5 /\ args[1] = Word(INSTALL) /\ args[2] = Option(ID) /\ args[4] = Option(VERSION)

(* C8: main with install --read runs the batch installation and not the single
   one, main with install --id --version [--repo] installs that artifact from
   that repository, install_package does the same for the namespaces of the two
   parsers, and neither ends before an installation is attempted *)
C8_InstallRunsSelectedMode ==
    /\ (call.fn = "main" /\ IsReadVector(call.arg)) =>
            /\ outcome # "exit"
            /\ installs = <<>> \/ batch.requirements # <<>>
    /\ (call.fn = "main" /\ IsIdVector(call.arg)) =>
            /\ Len(installs) = 1
            /\ installs[1].artifact = Artifact(Str(call.arg[3].s), Str(call.arg[5].s))
            /\ installs[1].site_package_path
                  = get_opa_package_path(Str(call.arg[3].s), Str(call.arg[5].s))
            /\ installs[1].repos
                  = List(<<IF Len(call.arg) = 7 THEN Str(call.arg[7].s) ELSE NoneV>>)
    /\ (call.fn = "install_package" /\ DOMAIN call.arg = {"read"}) =>
            exception # "AttributeError"
    /\ (call.fn = "install_package" /\ DOMAIN call.arg = {"id", "version", "repo"}) =>
            /\ Len(installs) = 1
            /\ installs[1].artifact = Artifact(call.arg.id, call.arg.version)
            /\ installs[1].repos = List(<<call.arg.repo>>)

---------------------------------------------------------------------------
(* Properties of the uninstaller *)

(* the install path of a name, narrowed to a version when one is given *)
InstallPathOf(parsed_args) ==
    IF IsNone(parsed_args.version)
    THEN OPA_SITE_PACKAGES \o Slash \o parsed_args.id.v
    ELSE OPA_SITE_PACKAGES \o Slash \o parsed_args.id.v \o Slash \o parsed_args.version.v

(* path q is the path p or lies below it *)
AtOrBelow(p, q) ==
    /\ Len(q) >= Len(p)
    /\ \A i \in 1..Len(p) : q[i] = p[i]
    /\ Len(q) > Len(p) => q[Len(p) + 1] = "/"

(* C9: an uninstall that returns has removed the paths at or below the install
   path of the name (and version) and no other; when nothing is there it returns
   and changes nothing, so a second uninstall leaves what the first left *)
C9_UninstallRemovesExactlyTheSubtree ==
    [][(pc = "start" /\ call'.fn = "uninstall_package") =>
         LET target == InstallPathOf(call'.arg)
         IN  /\ outcome' = "returned" =>
                   fs' = {q \in fs : ~AtOrBelow(target, q)}
             /\ (\A q \in fs : ~AtOrBelow(target, q)) =>
                   outcome' = "returned" /\ fs' = fs
             /\ outcome' = "returned" =>
                   {q \in fs' : ~AtOrBelow(target, q)} = fs']_vars

(* an uninstall of one version returned: the version is gone, the name's
   directory, its other version and the other names are still there *)
C9_Witness ==
    /\ pc = "done"
    /\ call.fn = "uninstall_package"
    /\ outcome = "returned"
    /\ ~IsNone(call.arg.version)
    /\ InstallPathOf(call.arg) \notin fs
    /\ InstallPathOf([call.arg EXCEPT !.version = NoneV]) \in fs
    /\ Cardinality(fs) = Cardinality(InstallPaths) - 1


====
